---- MODULE Spec2Model ----
(***************************************************************************)
(* The validation engine of validators/rust/src/main.rs: validate walks a  *)
(* parsed document beside a parsed schema and accumulates error strings;   *)
(* validate_property is the recursive per-node check.                      *)
(*                                                                         *)
(* A serde_json Value is a record tagged by t.  An Option is a sequence of *)
(* length 0 (None) or 1 (Some).  A Map is the sequence of its entries in   *)
(* the map's iteration order.  Strings are strings: format! is \o.         *)
(***************************************************************************)
EXTENDS Integers, Sequences, FiniteSets, TLC

VARIABLES
    data,        \* validate's argument `data`
    schema,      \* validate's argument `schema`
    pc,          \* position in validate: validate, properties, additional, each, done, panic
    errors,      \* the Vec<String> accumulator
    properties,  \* Option: the local `properties` once line 128 has run
    allowed,     \* Option: the HashSet `allowed`, as its (arbitrary) iteration order
    k,           \* position of the `for (key, prop_schema) in properties` loop
    stack,       \* the activation records of validate_property, innermost last
    calls,       \* history: every validate_property call made, in call order
    origin,      \* history: for each error, the call that pushed it (0: validate)
    run,         \* history: which run over the same inputs this is
    prev         \* history: Option, the previous run's error list and its `allowed`

vars == <<data, schema, pc, errors, properties, allowed, k, stack, calls, origin, run, prev>>

-----------------------------------------------------------------------------
(* Bounds of the model. *)

MaxLen == 2        \* longest document array and longest tuple `items`
MaxBound == 2      \* largest minLength / minItems / maxItems in a schema
MaxRuns == 2       \* runs over the same inputs in SpecRerun

-----------------------------------------------------------------------------
(* serde_json::Value *)

Null == [t |-> "null"]
Bool(b) == [t |-> "bool", b |-> b]
Num(n) == [t |-> "number", n |-> n]
Str(s) == [t |-> "string", s |-> s]
Arr(a) == [t |-> "array", a |-> a]
Obj(o) == [t |-> "object", o |-> o]
KV(key, v) == [k |-> key, v |-> v]

None == <<>>
Some(x) == <<x>>

is_object(v) == v.t = "object"
is_string(v) == v.t = "string"
is_array(v) == v.t = "array"

Keys(o) == [i \in 1..Len(o) |-> o[i].k]
Range(s) == {s[i] : i \in 1..Len(s)}

\* Map::get
MapGet(o, key) ==
    IF \E i \in 1..Len(o) : o[i].k = key
    THEN Some(o[CHOOSE i \in 1..Len(o) : o[i].k = key].v)
    ELSE None

\* Value::get(&str): None unless the value is an object holding the key
Get(v, key) == IF is_object(v) THEN MapGet(v.o, key) ELSE None

\* Option<&Value>::and_then(Value::as_str / as_object / as_u64)
as_str(opt) == IF opt # None /\ is_string(opt[1]) THEN Some(opt[1].s) ELSE None
as_object(opt) == IF opt # None /\ is_object(opt[1]) THEN Some(opt[1].o) ELSE None
as_u64(opt) == IF opt # None /\ opt[1].t = "number" /\ opt[1].n >= 0 THEN Some(opt[1].n) ELSE None

-----------------------------------------------------------------------------
(* Strings.  The document strings of the model are ASCII, so str::len (the  *)
(* length in bytes) is the number of characters.                            *)

Char(s, i) == SubSeq(s, i, i)
starts_with(s, p) == Len(s) >= Len(p) /\ SubSeq(s, 1, Len(p)) = p
str_len(s) == Len(s)

is_valid_uri(s) ==
    starts_with(s, "http://") \/ starts_with(s, "https://") \/ starts_with(s, "data:image/")

\* the class [^\s@] of the email expression
Whitespace == {" ", "\t", "\n", "\r", "\f"}
NotSpaceAt(s, lo, hi) == \A i \in lo..hi : Char(s, i) \notin (Whitespace \cup {"@"})

\* ^[^\s@]+@[^\s@]+\.[^\s@]+$ : some '@' at i and some '.' at j split the
\* string into three non-empty runs of [^\s@]
is_valid_email(s) ==
    \E i \in 2..Len(s) : \E j \in (i + 2)..(Len(s) - 1) :
        /\ Char(s, i) = "@"
        /\ Char(s, j) = "."
        /\ NotSpaceAt(s, 1, i - 1)
        /\ NotSpaceAt(s, i + 1, j - 1)
        /\ NotSpaceAt(s, j + 1, Len(s))

\* The regex crate, for the patterns the model's schemas carry:
\*   "^[a-z]+$"  compiles; matches the non-empty all-lowercase strings
\*   "@"         compiles; an unanchored search for the character
\*   "["         does not compile (unclosed character class)
Lower == {"a", "b", "c", "d", "e", "f", "g", "h", "i", "j", "k", "l", "m",
          "n", "o", "p", "q", "r", "s", "t", "u", "v", "w", "x", "y", "z"}

\* Regex::new(pattern): Ok(re) as Some(pattern), Err as None
RegexNew(pattern) == IF pattern \in {"^[a-z]+$", "@"} THEN Some(pattern) ELSE None

\* Regex::is_match
is_match(re, s) ==
    CASE re = "^[a-z]+$" -> Len(s) >= 1 /\ \A i \in 1..Len(s) : Char(s, i) \in Lower
      [] re = "@" -> \E i \in 1..Len(s) : Char(s, i) = "@"
      [] OTHER -> FALSE

-----------------------------------------------------------------------------
(* validate_property, the "string" arm after the type check (lines 162-195) *)

FormatErrors(path, s, sch) ==
    LET format == as_str(Get(sch, "format")) IN
    IF format = Some("uri") /\ ~is_valid_uri(s)
    THEN <<path \o ": invalid URI \"" \o s \o "\"">>
    ELSE IF format = Some("email") /\ ~is_valid_email(s)
    THEN <<path \o ": invalid email \"" \o s \o "\"">>
    ELSE <<>>

PatternErrors(path, s, sch) ==
    LET pattern == as_str(Get(sch, "pattern")) IN
    IF pattern # None /\ RegexNew(pattern[1]) # None /\ ~is_match(RegexNew(pattern[1])[1], s)
    THEN <<path \o ": does not match pattern " \o pattern[1]>>
    ELSE <<>>

MinLengthErrors(path, s, sch) ==
    LET min_len == as_u64(Get(sch, "minLength")) IN
    IF min_len # None /\ str_len(s) < min_len[1]
    THEN <<path \o ": string too short (min " \o ToString(min_len[1]) \o ")">>
    ELSE <<>>

\* lines 164-195 as an else-if chain: the first violated check ends the checks
StringErrorsFirst(path, s, sch) ==
    IF FormatErrors(path, s, sch) # <<>> THEN FormatErrors(path, s, sch)
    ELSE IF PatternErrors(path, s, sch) # <<>> THEN PatternErrors(path, s, sch)
    ELSE MinLengthErrors(path, s, sch)

StringErrors(path, s, sch) ==
    FormatErrors(path, s, sch) \o PatternErrors(path, s, sch) \o MinLengthErrors(path, s, sch)

(* the "array" arm's bounds checks, tuple mode only (lines 214-224) *)
MinItemsErrors(path, arr, sch) ==
    LET min == as_u64(Get(sch, "minItems")) IN
    IF min # None /\ Len(arr) < min[1]
    THEN <<path \o ": expected at least " \o ToString(min[1]) \o " items">>
    ELSE <<>>

MaxItemsErrors(path, arr, sch) ==
    LET max == as_u64(Get(sch, "maxItems")) IN
    IF max # None /\ Len(arr) > max[1]
    THEN <<path \o ": expected at most " \o ToString(max[1]) \o " items">>
    ELSE <<>>

BoundsErrors(path, arr, sch) == MinItemsErrors(path, arr, sch) \o MaxItemsErrors(path, arr, sch)

\* line 154 with a default: a node without a string `type` is a string node
ExpectedTypeOrString(sch) ==
    IF as_str(Get(sch, "type")) = None THEN Some("string") ELSE as_str(Get(sch, "type"))

\* line 154: schema.get("type").and_then(|t| t.as_str())
ExpectedType(sch) == as_str(Get(sch, "type"))

\* format!("{}[{}]", path, i), i counted from 0
ItemPath(path, i) == path \o "[" \o ToString(i - 1) \o "]"
\* format!(".{}", key)
KeyPath(key) == "." \o key

-----------------------------------------------------------------------------
(* The inputs: every document of Docs is validated against every schema of  *)
(* Schemas.  Maps are written in key order (serde_json's default BTreeMap). *)

\* all sequences over S of length lo..hi
SeqsOf(S, lo, hi) == UNION {[1..n -> S] : n \in lo..hi}

\* every map over `keys` (in that order) whose entry for a key is absent (None)
\* or takes one of the values Opts[key] offers
RECURSIVE MapsOver(_, _)
MapsOver(keys, Opts) ==
    IF keys = <<>> THEN {<<>>}
    ELSE LET rest == MapsOver(Tail(keys), Opts) IN
         {(IF o = None THEN <<>> ELSE <<KV(Head(keys), o[1])>>) \o r :
            o \in Opts[Head(keys)], r \in rest}

StrVals == {"", "ab", "abc", "a@b.co", "https://x.com", "ftp://x.com"}

\* schema nodes for array elements
EmailNode == Obj(<<KV("format", Str("email")), KV("type", Str("string"))>>)
AnyNode == Obj(<<>>)
PairNode == Obj(<<KV("items", Arr(<<EmailNode>>)), KV("minItems", Num(2)), KV("type", Str("array"))>>)
ItemNodes == {EmailNode, AnyNode, PairNode}

\* array elements
ElemVals == {Str("a@b.co"), Str("ab"), Arr(<<Num(1)>>)}
ArrVals == {Arr(a) : a \in SeqsOf(ElemVals, 0, MaxLen)}

StringNodes ==
    {Obj(m) : m \in MapsOver(<<"format", "minLength", "pattern", "type">>,
        [x \in {"format", "minLength", "pattern", "type"} |->
            CASE x = "format" -> {None, Some(Str("uri")), Some(Str("email"))}
              [] x = "minLength" -> {None, Some(Num(MaxBound))}
              [] x = "pattern" -> {None, Some(Str("^[a-z]+$")), Some(Str("["))}
              [] x = "type" -> {Some(Str("string"))}])}

ArrayNodes ==
    {Obj(m) : m \in MapsOver(<<"items", "maxItems", "minItems", "type">>,
        [x \in {"items", "maxItems", "minItems", "type"} |->
            CASE x = "items" -> {None} \cup {Some(n) : n \in ItemNodes}
                                \cup {Some(Arr(a)) : a \in SeqsOf(ItemNodes, 1, MaxLen)}
              [] x = "maxItems" -> {None, Some(Num(1))}
              [] x = "minItems" -> {None, Some(Num(1)), Some(Num(MaxBound))}
              [] x = "type" -> {Some(Str("array"))}])}

\* nodes that carry keywords their type does not use, or use them oddly
OddNodes ==
    { Obj(<<KV("type", Str("object"))>>),
      Obj(<<KV("properties", Obj(<<KV("x", Obj(<<KV("type", Str("string"))>>))>>)),
            KV("type", Str("object"))>>),
      Obj(<<KV("format", Str("uri")), KV("items", EmailNode), KV("minItems", Num(MaxBound)),
            KV("minLength", Num(MaxBound)), KV("pattern", Str("^[a-z]+$"))>>),
      Obj(<<KV("items", EmailNode), KV("maxItems", Num(0)), KV("minItems", Num(MaxBound)),
            KV("minLength", Num(1)), KV("type", Str("string"))>>),
      Obj(<<KV("format", Str("uri")), KV("items", Arr(<<AnyNode>>)), KV("minItems", Num(MaxBound)),
            KV("minLength", Num(MaxBound)), KV("pattern", Str("^[a-z]+$")),
            KV("type", Str("array"))>>),
      Obj(<<KV("format", Str("date")), KV("pattern", Str("@")), KV("type", Str("string"))>>),
      Obj(<<KV("minLength", Num(-1)), KV("type", Str("string"))>>),
      Obj(<<KV("items", Arr(<<AnyNode>>)), KV("maxItems", Str("1")), KV("minItems", Num(-1)),
            KV("type", Str("array"))>>),
      Obj(<<KV("items", Bool(TRUE)), KV("minItems", Num(MaxBound)), KV("type", Str("array"))>>),
      Obj(<<KV("items", Arr(<<EmailNode>>)), KV("maxItems", Num(0)), KV("minItems", Num(MaxBound)),
            KV("type", Str("array"))>>),
      Obj(<<KV("minLength", Num(MaxBound)), KV("type", Str("number"))>>),
      Obj(<<KV("minLength", Num(MaxBound)), KV("type", Num(1))>>),
      Bool(TRUE) }

PropNodes == StringNodes \cup ArrayNodes \cup OddNodes

PropVals ==
    {Null, Bool(TRUE), Num(1), Obj(<<>>), Obj(<<KV("x", Num(1))>>)}
    \cup {Str(s) : s \in StrVals} \cup ArrVals

\* schemas and documents of one property
OneSchemas == {Obj(<<KV("properties", Obj(<<KV("a", n)>>))>>) : n \in PropNodes}
OneDocs == {Obj(<<KV("a", v)>>) : v \in PropVals}

\* schemas and documents of several keys, with and without additionalProperties
FewNodes == {Obj(<<KV("type", Str("string"))>>), Obj(<<KV("type", Str("array"))>>)}
FewVals == {Str("ab"), Num(1)}
FewSchemas ==
    {Obj(m) : m \in MapsOver(<<"additionalProperties", "properties">>,
        [x \in {"additionalProperties", "properties"} |->
            CASE x = "additionalProperties" ->
                    {None, Some(Bool(FALSE)), Some(Bool(TRUE)), Some(Str("false"))}
              [] x = "properties" ->
                    {Some(Obj(m2)) : m2 \in MapsOver(<<"a", "b">>,
                        [y \in {"a", "b"} |-> {None} \cup {Some(n) : n \in FewNodes}])}])}
FewDocs ==
    {Obj(m) : m \in MapsOver(<<"a", "b", "c">>,
        [y \in {"a", "b", "c"} |-> {None} \cup {Some(v) : v \in FewVals}])}

\* schemas the loader parses but that hold no object `properties`
BareSchemas ==
    {Null, Obj(<<>>), Obj(<<KV("additionalProperties", Bool(FALSE))>>),
     Obj(<<KV("properties", Arr(<<>>))>>)}

\* documents whose root is not an object
RootVals == {Null, Bool(FALSE), Num(1), Str("ab"), Arr(<<>>), Arr(<<Obj(<<>>)>>)}

Docs == OneDocs \cup FewDocs \cup RootVals
Schemas == OneSchemas \cup FewSchemas \cup BareSchemas

-----------------------------------------------------------------------------
(* validate (lines 118-151) *)

Init ==
    /\ data \in Docs
    /\ schema \in Schemas
    /\ pc = "validate"
    /\ errors = <<>>
    /\ properties = None
    /\ allowed = None
    /\ k = 1
    /\ stack = <<>>
    /\ calls = <<>>
    /\ origin = <<>>
    /\ run = 1
    /\ prev = None

\* a call of validate_property: its activation record, and its entry in the history
Frame(id, path, value, sch) == [id |-> id, path |-> path, value |-> value, schema |-> sch, i |-> 0]
Call(path, value, sch, parent) == [path |-> path, value |-> value, schema |-> sch, parent |-> parent]

Push(path, value, sch, parent) ==
    /\ calls' = Append(calls, Call(path, value, sch, parent))
    /\ stack' = Append(stack, Frame(Len(calls) + 1, path, value, sch))

Pop == SubSeq(stack, 1, Len(stack) - 1)

\* errors.push, for each of `msgs` in turn, by call `id`
Report(msgs, id) ==
    /\ errors' = errors \o msgs
    /\ origin' = origin \o [i \in 1..Len(msgs) |-> id]

\* line 124 without its `return`: validate goes on to read `properties`
RootCheckFallsThrough == "properties"

\* line 124: `return errors`, where validate goes after the root error
RootCheckExit == "done"

\* lines 121-125: the root must be an object
RootCheck ==
    /\ pc = "validate"
    /\ IF ~is_object(data)
       THEN /\ Report(<<"root: expected object">>, 0)
            /\ pc' = RootCheckExit
       ELSE /\ pc' = "properties"
            /\ UNCHANGED <<errors, origin>>
    /\ UNCHANGED <<data, schema, properties, allowed, k, stack, calls, run, prev>>

\* lines 127-131: schema.get("properties").and_then(as_object).unwrap()
ReadProperties ==
    /\ pc = "properties"
    /\ LET p == as_object(Get(schema, "properties")) IN
       IF p = None
       THEN pc' = "panic" /\ UNCHANGED properties
       ELSE pc' = "additional" /\ properties' = p
    /\ UNCHANGED <<data, schema, errors, allowed, k, stack, calls, origin, run, prev>>

\* line 134 testing for "not true": an absent additionalProperties closes the schema
AdditionalNotTrue(sch) == Get(sch, "additionalProperties") # Some(Bool(TRUE))

\* line 134
AdditionalClosed(sch) == Get(sch, "additionalProperties") = Some(Bool(FALSE))

\* the orders a HashSet of these keys may iterate in
HashOrders(keys) ==
    {o \in [1..Len(keys) -> Range(keys)] : \A key \in Range(keys) : \E i \in 1..Len(keys) : o[i] = key}

\* lines 136-140: one error per data key the set does not contain, in data order
UnknownErrors(dataKeys, set) ==
    LET unknown == SelectSeq(dataKeys, LAMBDA key : key \notin Range(set)) IN
    [i \in 1..Len(unknown) |-> "root: unknown property \"" \o unknown[i] \o "\""]

\* lines 133-141
CheckAdditional ==
    /\ pc = "additional"
    /\ IF AdditionalClosed(schema)
       THEN \E set \in HashOrders(Keys(properties[1])) :
                /\ allowed' = Some(set)
                /\ Report(UnknownErrors(Keys(data.o), set), 0)
       ELSE UNCHANGED <<allowed, errors, origin>>
    /\ pc' = "each"
    /\ UNCHANGED <<data, schema, properties, k, stack, calls, run, prev>>

\* line 144 looping over `allowed` when it was built, in the set's order
HashPropertyOrder(props, set) == IF set # None THEN set[1] ELSE Keys(props)

\* line 144: the order the property loop visits the keys in
PropertyOrder(props, set) == Keys(props)

\* line 145 with a default for an absent key: every declared key is validated
DataGetOrNull(obj, key) == IF MapGet(obj, key) = None THEN Some(Null) ELSE MapGet(obj, key)

\* line 145: data_obj.get(key)
DataGet(obj, key) == MapGet(obj, key)

\* lines 144-148: one turn of the loop, up to the call it makes
NextProperty ==
    /\ pc = "each" /\ stack = <<>>
    /\ k <= Len(properties[1])
    /\ LET key == PropertyOrder(properties[1], allowed)[k]
           value == DataGet(data.o, key) IN
       IF value # None
       THEN Push(KeyPath(key), value[1], MapGet(properties[1], key)[1], 0)
       ELSE UNCHANGED <<stack, calls>>
    /\ k' = k + 1
    /\ UNCHANGED <<data, schema, pc, errors, properties, allowed, origin, run, prev>>

\* line 150
Return ==
    /\ pc = "each" /\ stack = <<>>
    /\ k > Len(properties[1])
    /\ pc' = "done"
    /\ UNCHANGED <<data, schema, errors, properties, allowed, k, stack, calls, origin, run, prev>>

-----------------------------------------------------------------------------
(* validate_property (lines 153-240).  A frame with i = 0 has not yet run    *)
(* its match; a frame with i >= 1 is in an `items` loop, about to look at    *)
(* element i (counted from 1).                                               *)

top == stack[Len(stack)]

\* lines 158-161 without the `return`: the checks run on an empty string
StringArmNoReturn(path, value, sch) ==
    IF ~is_string(value)
    THEN <<path \o ": expected string">> \o StringErrors(path, "", sch)
    ELSE StringErrors(path, value.s, sch)

\* lines 157-196
StringArm(path, value, sch) ==
    IF ~is_string(value)
    THEN <<path \o ": expected string">>
    ELSE StringErrors(path, value.s, sch)

VPString ==
    /\ pc = "each" /\ stack # <<>> /\ top.i = 0
    /\ ExpectedType(top.schema) = Some("string")
    /\ Report(StringArm(top.path, top.value, top.schema), top.id)
    /\ stack' = Pop
    /\ UNCHANGED <<data, schema, pc, properties, allowed, k, calls, run, prev>>

\* lines 197-205: the type check, then into the loop over the elements when
\* the schema has `items`
VPArray ==
    /\ pc = "each" /\ stack # <<>> /\ top.i = 0
    /\ ExpectedType(top.schema) = Some("array")
    /\ IF ~is_array(top.value)
       THEN /\ Report(<<top.path \o ": expected array">>, top.id)
            /\ stack' = Pop
       ELSE /\ UNCHANGED <<errors, origin>>
            /\ IF Get(top.schema, "items") = None
               THEN stack' = Pop
               ELSE stack' = [stack EXCEPT ![Len(stack)].i = 1]
    /\ UNCHANGED <<data, schema, pc, properties, allowed, k, calls, run, prev>>

\* line 210 falling back on the last schema for the elements past the tuple
ItemSchemaLast(items_schema, i) ==
    IF is_array(items_schema)
    THEN (IF i <= Len(items_schema.a) THEN Some(items_schema.a[i])
          ELSE IF items_schema.a # <<>> THEN Some(items_schema.a[Len(items_schema.a)])
          ELSE None)
    ELSE Some(items_schema)

\* lines 210 and 228: the schema element i (from 1) is validated against, if any
ItemSchema(items_schema, i) ==
    IF is_array(items_schema)
    THEN (IF i <= Len(items_schema.a) THEN Some(items_schema.a[i]) ELSE None)
    ELSE Some(items_schema)

\* lines 211 and 228 handing on `value`, the whole array, for `item`
ItemWhole(arr, i) == arr

\* lines 209 and 227: the element the loop hands to the call
Item(arr, i) == arr.a[i]

\* lines 209-213 and 227-229: one turn of the loop, up to the call it makes
ItemStep ==
    /\ pc = "each" /\ stack # <<>> /\ top.i >= 1
    /\ top.i <= Len(top.value.a)
    /\ LET item_schema == ItemSchema(Get(top.schema, "items")[1], top.i)
           next == [stack EXCEPT ![Len(stack)].i = top.i + 1] IN
       IF item_schema # None
       THEN /\ calls' = Append(calls, Call(ItemPath(top.path, top.i), Item(top.value, top.i),
                                           item_schema[1], top.id))
            /\ stack' = Append(next, Frame(Len(calls) + 1, ItemPath(top.path, top.i),
                                           Item(top.value, top.i), item_schema[1]))
       ELSE /\ stack' = next
            /\ UNCHANGED calls
    /\ UNCHANGED <<data, schema, pc, errors, properties, allowed, k, origin, run, prev>>

\* lines 214-224 moved out of the tuple branch: the bounds are looked at in both modes
AfterItemsAlways(path, arr, sch) == BoundsErrors(path, arr, sch)

\* lines 214-224: after the loop; the bounds are looked at in tuple mode only
AfterItems(path, arr, sch) ==
    IF is_array(Get(sch, "items")[1]) THEN BoundsErrors(path, arr, sch) ELSE <<>>

ItemsDone ==
    /\ pc = "each" /\ stack # <<>> /\ top.i >= 1
    /\ top.i > Len(top.value.a)
    /\ Report(AfterItems(top.path, top.value.a, top.schema), top.id)
    /\ stack' = Pop
    /\ UNCHANGED <<data, schema, pc, properties, allowed, k, calls, run, prev>>

\* lines 233-237
ObjectArm(path, value, sch) ==
    IF ~is_object(value) THEN <<path \o ": expected object">> ELSE <<>>

VPObject ==
    /\ pc = "each" /\ stack # <<>> /\ top.i = 0
    /\ ExpectedType(top.schema) = Some("object")
    /\ Report(ObjectArm(top.path, top.value, top.schema), top.id)
    /\ stack' = Pop
    /\ UNCHANGED <<data, schema, pc, properties, allowed, k, calls, run, prev>>

\* line 238
VPOther ==
    /\ pc = "each" /\ stack # <<>> /\ top.i = 0
    /\ ExpectedType(top.schema) \notin {Some("string"), Some("array"), Some("object")}
    /\ stack' = Pop
    /\ UNCHANGED <<data, schema, pc, errors, properties, allowed, k, calls, origin, run, prev>>

\* a further call validate(&data, &schema) on the same inputs, as line 105
\* makes the first: what C5 compares
Rerun ==
    /\ pc = "done" /\ run < MaxRuns
    /\ run' = run + 1
    /\ prev' = Some([errors |-> errors, allowed |-> allowed])
    /\ pc' = "validate"
    /\ errors' = <<>> /\ origin' = <<>> /\ calls' = <<>> /\ stack' = <<>>
    /\ properties' = None /\ allowed' = None /\ k' = 1
    /\ UNCHANGED <<data, schema>>

Next ==
    \/ RootCheck
    \/ ReadProperties
    \/ CheckAdditional
    \/ NextProperty
    \/ Return
    \/ VPString
    \/ VPArray
    \/ ItemStep
    \/ ItemsDone
    \/ VPObject
    \/ VPOther

Spec == Init /\ [][Next]_vars

\* a run is one sequential call: it is never suspended
FairSpec == Init /\ [][Next]_vars /\ WF_vars(Next)

NextRerun == Next \/ Rerun
SpecRerun == Init /\ [][NextRerun]_vars

-----------------------------------------------------------------------------
(* What the properties below read off a finished run. *)

Done == pc = "done"
DataKeys == Range(Keys(data.o))
Declared == as_object(Get(schema, "properties"))
DeclaredKeys == Range(Keys(Declared[1]))
CallIds == 1..Len(calls)

Count(msg) == Cardinality({i \in 1..Len(errors) : errors[i] = msg})
UnknownMsg(key) == "root: unknown property \"" \o key \o "\""

\* the errors call c pushed itself, in order
ErrorsBy(c) ==
    LET idx == SelectSeq([i \in 1..Len(errors) |-> i], LAMBDA i : origin[i] = c) IN
    [j \in 1..Len(idx) |-> errors[idx[j]]]

\* the calls call c made itself (c = 0: validate), in order
Children(c) == SelectSeq([d \in 1..Len(calls) |-> d], LAMBDA d : calls[d].parent = c)

\* call d is c or was made, directly or not, by c
RECURSIVE Within(_, _)
Within(d, c) == IF d = c THEN TRUE ELSE IF d = 0 THEN FALSE ELSE Within(calls[d].parent, c)

\* the errors pushed by c and by the calls under it
ErrorsUnder(c) ==
    LET idx == SelectSeq([i \in 1..Len(errors) |-> i], LAMBDA i : Within(origin[i], c)) IN
    [j \in 1..Len(idx) |-> errors[idx[j]]]

\* C1: a document whose root is not an object yields, under every schema,
\* exactly the one error "root: expected object"; validate then reads no
\* `properties`, builds no `allowed` set and validates no property.
C1_RootNotObject ==
    ~is_object(data) =>
        /\ pc \in {"validate", "done"}
        /\ properties = None /\ allowed = None /\ calls = <<>>
        /\ Done => errors = <<"root: expected object">>

C1_Witness ==
    /\ Done /\ data = Arr(<<Obj(<<>>)>>)
    /\ Declared = None
    /\ Len(errors) = 1

\* C2: with an object document and an object `properties`: when
\* additionalProperties is the boolean false, each data key outside
\* `properties` has exactly one unknown-property error and each key inside has
\* none; when it is absent or true, no data key has one.  No unknown-property
\* error names anything but an undeclared data key.
C2_UnknownProperties ==
    (Done /\ is_object(data) /\ Declared # None) =>
        LET addl == Get(schema, "additionalProperties") IN
        /\ addl = Some(Bool(FALSE)) =>
              \A key \in DataKeys :
                  Count(UnknownMsg(key)) = IF key \in DeclaredKeys THEN 0 ELSE 1
        /\ addl \in {None, Some(Bool(TRUE))} =>
              \A key \in DataKeys : Count(UnknownMsg(key)) = 0
        /\ \A i \in 1..Len(errors) :
              starts_with(errors[i], "root: unknown property") =>
                  /\ addl = Some(Bool(FALSE))
                  /\ \E key \in DataKeys \ DeclaredKeys : errors[i] = UnknownMsg(key)

C2_Witness ==
    /\ Done /\ is_object(data) /\ Declared # None
    /\ Get(schema, "additionalProperties") = Some(Bool(FALSE))
    /\ DataKeys = {"a", "b", "c"} /\ DeclaredKeys = {"a"}
    /\ Count(UnknownMsg("b")) = 1 /\ Count(UnknownMsg("c")) = 1

\* C3: validate calls validate_property exactly once, at path .<key> and with
\* the key's value and schema, for each declared key present in the document,
\* and makes no other call; a declared key absent from the document gets no
\* call and no error; the empty object yields no error.
C3_DeclaredKeys ==
    (Done /\ is_object(data) /\ Declared # None) =>
        /\ \A key \in DeclaredKeys :
              LET at == {c \in CallIds : calls[c].parent = 0 /\ calls[c].path = "." \o key} IN
              IF key \in DataKeys
              THEN /\ Cardinality(at) = 1
                   /\ \A c \in at : /\ Some(calls[c].value) = MapGet(data.o, key)
                                    /\ Some(calls[c].schema) = MapGet(Declared[1], key)
              ELSE /\ at = {}
                   /\ \A i \in 1..Len(errors) :
                         /\ ~starts_with(errors[i], "." \o key)
                         /\ errors[i] # UnknownMsg(key)
        /\ Len(Children(0)) = Cardinality(DeclaredKeys \cap DataKeys)
        /\ data.o = <<>> => errors = <<>>

C3_Witness ==
    /\ Done /\ is_object(data) /\ Declared # None
    /\ DeclaredKeys = {"a", "b"} /\ DataKeys = {"a", "c"}
    /\ Get(schema, "additionalProperties") = Some(Bool(FALSE))
    /\ errors = <<UnknownMsg("c"), ".a: expected string">>

\* the nesting depth of a value: 0 for a scalar, one more than its deepest
\* member for an array or an object
RECURSIVE Depth(_)
Max(S) == IF S = {} THEN 0 ELSE CHOOSE x \in S : \A y \in S : y <= x
Depth(v) ==
    IF is_array(v) THEN 1 + Max({Depth(v.a[i]) : i \in 1..Len(v.a)})
    ELSE IF is_object(v) THEN 1 + Max({Depth(v.o[i].v) : i \in 1..Len(v.o)})
    ELSE 0

\* the schema holds what validate unwraps, or validate never gets to unwrap it
Trusted == ~is_object(data) \/ Declared # None

\* C4 as stated: whatever the document and the schema, validate never aborts.
C4_NeverAborts == pc # "panic"

\* C4, amended: when the schema holds an object `properties` (or the root is
\* not an object), validate never aborts, terminates and returns its list;
\* under every schema the activation records of validate_property are never
\* more than the document is deep.
C4_Terminates ==
    /\ [](Len(stack) <= Depth(data))
    /\ [](Trusted => pc # "panic")
    /\ (Trusted ~> Done)

C4_Witness ==
    /\ Done /\ is_object(data) /\ Declared # None
    /\ Depth(data) = 3
    /\ \E c \in CallIds : calls[c].parent # 0 /\ calls[calls[c].parent].parent # 0

\* C5: a second run of validate over the same document and schema returns
\* the same errors in the same order, whatever order the `allowed` set
\* iterates in.
C5_SameErrors == (Done /\ prev # None) => errors = prev[1].errors

C5_Witness ==
    /\ Done /\ prev # None
    /\ allowed # None /\ prev[1].allowed # allowed
    /\ Len(errors) >= 3

\* what a node's declared type expects of the value's type, if anything
Mismatch(c) ==
    /\ ExpectedType(calls[c].schema) \in {Some("string"), Some("array"), Some("object")}
    /\ calls[c].value.t # ExpectedType(calls[c].schema)[1]

\* the calls a call on an array makes: one per element that has a schema
ExpectedItems(c) ==
    LET items == Get(calls[c].schema, "items")[1]
        n == Len(calls[c].value.a) IN
    IF is_array(items) THEN (IF Len(items.a) < n THEN Len(items.a) ELSE n) ELSE n

\* C6: a call at path P whose schema declares string, array or object and
\* whose value is of another type pushes exactly `P: expected <type>`; no
\* other error is at P or below P and the call makes no call; the calls for
\* the other properties and the other elements of the same array are made
\* all the same.
C6_TypeMismatch ==
    Done =>
        \A c \in CallIds :
            Mismatch(c) =>
                LET P == calls[c].path
                    p == calls[c].parent IN
                /\ ErrorsUnder(c) = <<P \o ": expected " \o ExpectedType(calls[c].schema)[1]>>
                /\ Children(c) = <<>>
                /\ Cardinality({i \in 1..Len(errors) : starts_with(errors[i], P)}) = 1
                /\ IF p = 0
                   THEN Len(Children(0)) = Cardinality(DeclaredKeys \cap DataKeys)
                   ELSE Len(Children(p)) = ExpectedItems(p)

C6_Witness ==
    /\ Done
    /\ \E c, d \in CallIds :
          /\ c < d /\ calls[c].parent = calls[d].parent /\ calls[c].parent # 0
          /\ Mismatch(c)
          /\ Get(calls[c].schema, "format") # None
          /\ ErrorsBy(d) # <<>>

\* a call on a string value under a `type: "string"` node
StringCall(c) == ExpectedType(calls[c].schema) = Some("string") /\ is_string(calls[c].value)

\* which of the three string checks the value of call c violates
BadFormat(c) ==
    \/ /\ Get(calls[c].schema, "format") = Some(Str("uri"))
       /\ ~is_valid_uri(calls[c].value.s)
    \/ /\ Get(calls[c].schema, "format") = Some(Str("email"))
       /\ ~is_valid_email(calls[c].value.s)
BadPattern(c) ==
    LET pattern == as_str(Get(calls[c].schema, "pattern")) IN
    /\ pattern # None
    /\ RegexNew(pattern[1]) # None
    /\ ~is_match(pattern[1], calls[c].value.s)
BadLength(c) ==
    LET min_len == as_u64(Get(calls[c].schema, "minLength")) IN
    min_len # None /\ str_len(calls[c].value.s) < min_len[1]

FormatMsg(c) ==
    calls[c].path \o ": invalid "
        \o (IF Get(calls[c].schema, "format") = Some(Str("uri")) THEN "URI" ELSE "email")
        \o " \"" \o calls[c].value.s \o "\""
PatternMsg(c) == calls[c].path \o ": does not match pattern " \o Get(calls[c].schema, "pattern")[1].s
LengthMsg(c) ==
    calls[c].path \o ": string too short (min "
        \o ToString(Get(calls[c].schema, "minLength")[1].n) \o ")"

\* C7: on a string value under a string node, each of the format, pattern
\* and minLength checks pushes its error exactly when its own condition is
\* violated, whatever the other two found, in the order format, pattern,
\* minLength; a pattern that does not compile pushes nothing.
C7_StringChecks ==
    Done =>
        \A c \in CallIds :
            StringCall(c) =>
                /\ ErrorsBy(c) =
                      (IF BadFormat(c) THEN <<FormatMsg(c)>> ELSE <<>>)
                      \o (IF BadPattern(c) THEN <<PatternMsg(c)>> ELSE <<>>)
                      \o (IF BadLength(c) THEN <<LengthMsg(c)>> ELSE <<>>)
                /\ (as_str(Get(calls[c].schema, "pattern")) = Some("["))
                      => \A i \in 1..Len(errors) :
                            ~starts_with(errors[i], calls[c].path \o ": does not match")

C7_Witness ==
    /\ Done
    /\ \E c \in CallIds :
          /\ StringCall(c)
          /\ BadFormat(c) /\ BadPattern(c) /\ BadLength(c)
          /\ Len(ErrorsBy(c)) = 3

\* a call on an array value under a `type: "array"` node
ArrayCall(c) == ExpectedType(calls[c].schema) = Some("array") /\ is_array(calls[c].value)
TupleCall(c) ==
    /\ ArrayCall(c)
    /\ Get(calls[c].schema, "items") # None
    /\ is_array(Get(calls[c].schema, "items")[1])

\* C8: in tuple mode at path P, element i is validated against items[i] at
\* P[i] for exactly the i below both lengths, in increasing order; after every
\* error of the elements comes `P: expected at least N items` iff minItems = N
\* and the array is shorter, then `P: expected at most N items` iff
\* maxItems = N and the array is longer.
C8_TupleMode ==
    Done =>
        \A c \in CallIds :
            TupleCall(c) =>
                LET P == calls[c].path
                    arr == calls[c].value.a
                    its == Get(calls[c].schema, "items")[1].a
                    min == as_u64(Get(calls[c].schema, "minItems"))
                    max == as_u64(Get(calls[c].schema, "maxItems"))
                    both == IF Len(arr) < Len(its) THEN Len(arr) ELSE Len(its)
                    made == Children(c) IN
                /\ Len(made) = both
                /\ \A i \in 1..both :
                      calls[made[i]] =
                          [path |-> P \o "[" \o ToString(i - 1) \o "]", value |-> arr[i],
                           schema |-> its[i], parent |-> c]
                /\ ErrorsBy(c) =
                      (IF min # None /\ Len(arr) < min[1]
                       THEN <<P \o ": expected at least " \o ToString(min[1]) \o " items">>
                       ELSE <<>>)
                      \o (IF max # None /\ Len(arr) > max[1]
                          THEN <<P \o ": expected at most " \o ToString(max[1]) \o " items">>
                          ELSE <<>>)
                /\ \A i, j \in 1..Len(errors) :
                      (origin[j] = c /\ origin[i] # c /\ Within(origin[i], c)) => i < j

C8_Witness ==
    /\ Done
    /\ \E c \in CallIds :
          /\ TupleCall(c)
          /\ Len(calls[c].value.a) = 2
          /\ Len(Get(calls[c].schema, "items")[1].a) = 1
          /\ Len(ErrorsBy(c)) = 1
          /\ Len(ErrorsUnder(c)) = 2
          /\ ~is_string(calls[c].value.a[2])

\* C9: under an array node whose `items` is a single node, every element i
\* is validated against that node at P[i] and the call pushes no bounds error,
\* whatever minItems and maxItems say; with no `items` the call validates no
\* element and the array yields no error.
C9_Homogeneous ==
    Done =>
        \A c \in CallIds :
            (ArrayCall(c) /\ ~TupleCall(c)) =>
                LET P == calls[c].path
                    arr == calls[c].value.a
                    items == Get(calls[c].schema, "items")
                    made == Children(c) IN
                /\ ErrorsBy(c) = <<>>
                /\ IF items = None
                   THEN made = <<>> /\ ErrorsUnder(c) = <<>>
                   ELSE /\ Len(made) = Len(arr)
                        /\ \A i \in 1..Len(arr) :
                              calls[made[i]] =
                                  [path |-> P \o "[" \o ToString(i - 1) \o "]", value |-> arr[i],
                                   schema |-> items[1], parent |-> c]

C9_Witness ==
    /\ Done
    /\ \E c \in CallIds :
          /\ ArrayCall(c) /\ ~TupleCall(c)
          /\ Get(calls[c].schema, "items") # None
          /\ Get(calls[c].schema, "minItems") = Some(Num(MaxBound))
          /\ Get(calls[c].schema, "maxItems") = Some(Num(1))
          /\ Len(calls[c].value.a) = 2
          /\ Len(Children(c)) = 2
          /\ ErrorsBy(c) = <<>>

\* the error c pushed itself is one of the string arm's / the array arm's own
StringKind(c, msg) ==
    \E kind \in {": expected string", ": invalid URI", ": invalid email",
                 ": does not match pattern", ": string too short"} :
        starts_with(msg, calls[c].path \o kind)
ArrayKind(c, msg) ==
    \E kind \in {": expected array", ": expected at least", ": expected at most"} :
        starts_with(msg, calls[c].path \o kind)

\* C10: the declared type alone selects the keywords a call consults.  A
\* node with no `type` pushes nothing and validates nothing, whatever it
\* carries; an object node pushes at most `P: expected object` and validates
\* no member, even with `properties`; a string node makes no call and pushes
\* only string errors; an array node pushes only array errors itself.
C10_TypeSelects ==
    Done =>
        \A c \in CallIds :
            LET P == calls[c].path
                sch == calls[c].schema
                mine == ErrorsBy(c) IN
            /\ Get(sch, "type") = None =>
                  ErrorsUnder(c) = <<>> /\ Children(c) = <<>>
            /\ ExpectedType(sch) = Some("object") =>
                  /\ Children(c) = <<>>
                  /\ ErrorsUnder(c) =
                        IF is_object(calls[c].value) THEN <<>> ELSE <<P \o ": expected object">>
            /\ ExpectedType(sch) = Some("string") =>
                  /\ Children(c) = <<>>
                  /\ \A i \in 1..Len(mine) : StringKind(c, mine[i]) /\ ~ArrayKind(c, mine[i])
            /\ ExpectedType(sch) = Some("array") =>
                  \A i \in 1..Len(mine) : ArrayKind(c, mine[i]) /\ ~StringKind(c, mine[i])

C10_Witness ==
    /\ Done
    /\ \E c \in CallIds :
          /\ Get(calls[c].schema, "type") = None
          /\ Get(calls[c].schema, "format") = Some(Str("uri"))
          /\ Get(calls[c].schema, "minLength") = Some(Num(MaxBound))
          /\ Get(calls[c].schema, "items") # None
          /\ calls[c].value = Str("")
          /\ errors = <<>>

====
